---- MODULE Spec2Model ----
(***************************************************************************)
(* Model of telemetry-metrics/otel-collector/container/supervisor-watcher.py *)
(* A supervisord event listener: main(args) loops over listener.wait,      *)
(* parses the event body, and on PROCESS_STATE_FATAL / PROCESS_STATE_EXITED *)
(* of a watched process sleeps 10 seconds and calls `supervisorctl          *)
(* shutdown`, then acknowledges the event with listener.ok.                *)
(*                                                                         *)
(* Strings are modelled as sequences of symbols: a symbol is either a      *)
(* separator (":" or " ") or a word that holds no separator.  str.split    *)
(* is computed on these sequences as Python computes it on characters.     *)
(***************************************************************************)
EXTENDS Integers, Sequences, FiniteSets, TLC

\* ------------------------------------------------------------------ bounds
\* Number of event frames the supervisor sends before closing the stream.
MaxFrames == 2
\* Length (in symbols) of the exhaustively enumerated event bodies.
MaxBodyLen == 3

\* ------------------------------------------------------- program constants
\* exit(1)
FailExitStatus == 1
\* Exit status of the interpreter when an exception escapes main().
UncaughtExitStatus == 1
\* exit_status while the process is still running.
Running == -1

\* ------------------------------------------------------------------ inputs
COLON == ":"
SPACE == " "
PROCESSNAME == <<"processname">>

Alphabet == {"processname", "game", COLON, SPACE}

\* Longer bodies of interest: several tokens, a duplicate key, a payload
\* line as carried by PROCESS_COMMUNICATION / PROCESS_LOG events.
ExtraBodies ==
    { <<"processname", COLON, "sidecar">>,
      <<"processname", COLON, "game", SPACE, "expected", COLON, "0">>,
      <<"processname", COLON, "sidecar", SPACE, "expected", COLON, "0">>,
      <<"groupname", COLON, "game", SPACE, "expected", COLON, "0">>,
      <<"processname", COLON, "game", SPACE, "processname", COLON, "sidecar">>,
      <<"processname", COLON, "game", SPACE, "badtoken">>,
      <<"processname", COLON, "game", SPACE, SPACE, "pid", COLON, "1">>,
      <<"processname", COLON, "game", COLON, "x">>,
      <<"badtoken">> }

Bodies == UNION { [1..k -> Alphabet] : k \in 0..MaxBodyLen } \cup ExtraBodies

EventNames ==
    { "PROCESS_STATE_FATAL", "PROCESS_STATE_EXITED", "PROCESS_STATE_RUNNING",
      "PROCESS_COMMUNICATION_STDOUT" }

\* The header dict returned by listener.wait: always carries len (wait reads
\* it to size the body), and eventname unless the supervisor omitted it.
HeaderSet ==
    { [k \in {"eventname", "len"} |-> IF k = "len" THEN "n" ELSE e] : e \in EventNames }
        \cup { [k \in {"len"} |-> "n"] }

\* sys.argv[1:]: the process names to watch (membership is all the code uses).
WatchLists == SUBSET { <<"game">>, <<"sidecar">> }

EmptyDict == << >>

\* ---------------------------------------------------------- pure functions
\* str.split(sep) with an explicit separator: one piece per separator plus
\* one; adjacent separators and the empty string yield empty pieces.
RECURSIVE Split(_, _)
Split(s, sep) ==
    IF \A i \in 1..Len(s) : s[i] # sep
    THEN << s >>
    ELSE LET i == CHOOSE j \in 1..Len(s) :
                      s[j] = sep /\ \A k \in 1..(j - 1) : s[k] # sep
         IN  << SubSeq(s, 1, i - 1) >> \o Split(SubSeq(s, i + 1, Len(s)), sep)

\* [pair.split(":") for pair in body.split(" ")]
Pairs(b) ==
    LET toks == Split(b, SPACE)
    IN  [i \in 1..Len(toks) |-> Split(toks[i], COLON)]

\* dict(seq) raises ValueError unless every element has exactly two items.
DictRaises(b) == \E i \in 1..Len(Pairs(b)) : Len(Pairs(b)[i]) # 2

\* dict(seq): the last pair with a given key wins.
DictOf(b) ==
    LET ps == Pairs(b)
        keys == { ps[i][1] : i \in 1..Len(ps) }
        last(k) == CHOOSE i \in 1..Len(ps) :
                       ps[i][1] = k /\ \A j \in (i + 1)..Len(ps) : ps[j][1] # k
    IN  [k \in keys |-> ps[last(k)][2]]

HasKey(d, k) == k \in DOMAIN d

\* headers["eventname"] == "PROCESS_STATE_FATAL" or ... == "PROCESS_STATE_EXITED"
IsExitEvent(h) ==
    h["eventname"] = "PROCESS_STATE_FATAL" \/ h["eventname"] = "PROCESS_STATE_EXITED"

\* Number of occurrences of x in a sequence (used on the run's history).
Count(seq, x) == Cardinality({ i \in 1..Len(seq) : seq[i] = x })

VARIABLES
    args,         \* main's parameter: the watch list
    debug_mode,   \* 'DEBUG' in os.environ
    pc,           \* position in main
    headers,      \* headers returned by listener.wait
    rawbody,      \* body returned by listener.wait
    body,         \* body after line 21 (a dict)
    nread,        \* frames read so far
    nexit,        \* history: frames read so far whose eventname is FATAL/EXITED
    trace,        \* history: READY/READ/SLEEP/SHUTDOWN/SPAWNFAIL/CMDEXIT/OK/FAIL
    cmd_rc,       \* return value of the last subprocess.call (discarded)
    uncaught,     \* exception that escaped main, or "none"
    exit_status   \* process exit status, Running while alive

vars == << args, debug_mode, pc, headers, rawbody, body, nread, nexit, trace,
           cmd_rc, uncaught, exit_status >>

Init ==
    /\ args \in WatchLists
    /\ debug_mode \in BOOLEAN
    /\ pc = "wait"
    /\ headers = EmptyDict
    /\ rawbody = << >>
    /\ body = EmptyDict
    /\ nread = 0
    /\ nexit = 0
    /\ trace = << >>
    /\ cmd_rc = 0
    /\ uncaught = "none"
    /\ exit_status = Running

\* ----------------------------------------------------------------- actions
\* Line 20, listener.wait: writes READY, then reads one header line and the
\* body it announces.
ListenerWait ==
    /\ pc = "wait"
    /\ nread < MaxFrames
    /\ \E h \in HeaderSet, b \in Bodies :
          /\ headers' = h
          /\ rawbody' = b
          /\ nexit' = IF HasKey(h, "eventname") /\ IsExitEvent(h)
                       THEN nexit + 1 ELSE nexit
    /\ nread' = nread + 1
    /\ trace' = trace \o << "READY", "READ" >>
    /\ pc' = "parse"
    /\ UNCHANGED << args, debug_mode, body, cmd_rc, uncaught, exit_status >>

\* Line 20 at end of input: readline() returns '', the header dict is empty
\* and wait's int(headers['len']) raises KeyError, outside the try block.
ListenerWaitEOF ==
    /\ pc = "wait"
    /\ trace' = trace \o << "READY" >>
    /\ uncaught' = "KeyError"
    /\ exit_status' = UncaughtExitStatus
    /\ pc' = "done"
    /\ UNCHANGED << args, debug_mode, headers, rawbody, body, nread, nexit, cmd_rc >>

\* Line 21: body = dict([pair.split(":") for pair in body.split(" ")]),
\* before the debug check and outside the try block.
ParseBody ==
    /\ pc = "parse"
    /\ IF DictRaises(rawbody)
       THEN /\ uncaught' = "ValueError"
            /\ exit_status' = UncaughtExitStatus
            /\ pc' = "done"
            /\ UNCHANGED body
       ELSE /\ body' = DictOf(rawbody)
            /\ pc' = "debug"
            /\ UNCHANGED << uncaught, exit_status >>
    /\ UNCHANGED << args, debug_mode, headers, rawbody, nread, nexit, trace, cmd_rc >>

\* Line 23: if debug_mode: continue.  (headers and body are overwritten by
\* the next wait before anything reads them, so they are cleared here.)
DebugContinue ==
    /\ pc = "debug"
    /\ debug_mode
    /\ pc' = "wait"
    /\ headers' = EmptyDict
    /\ rawbody' = << >>
    /\ body' = EmptyDict
    /\ UNCHANGED << args, debug_mode, nread, nexit, trace, cmd_rc, uncaught, exit_status >>

\* Line 23 with debug_mode False: enter the try block.
EnterTry ==
    /\ pc = "debug"
    /\ ~debug_mode
    /\ pc' = "try"
    /\ UNCHANGED << args, debug_mode, headers, rawbody, body, nread, nexit, trace,
                    cmd_rc, uncaught, exit_status >>

\* Decide looking up processname before testing for an empty watch list.
DecideLookupFirst(h, d, a) ==
    IF ~HasKey(h, "eventname") THEN "except"
    ELSE IF ~IsExitEvent(h) THEN "ok"
    ELSE IF ~HasKey(d, PROCESSNAME) THEN "except"
    ELSE IF a = {} \/ d[PROCESSNAME] \in a THEN "sleep"
    ELSE "ok"

\* Decide reading eventname with a default (headers.get) instead of raising.
DecideGetEventname(h, d, a) ==
    IF ~HasKey(h, "eventname") THEN "ok"
    ELSE IF ~IsExitEvent(h) THEN "ok"
    ELSE IF a = {} THEN "sleep"
    ELSE IF ~HasKey(d, PROCESSNAME) THEN "except"
    ELSE IF d[PROCESSNAME] \in a THEN "sleep"
    ELSE "ok"

\* Decide with `== "PROCESS_STATE_FATAL" or "PROCESS_STATE_EXITED"`: the
\* second operand is a non-empty string, so the test holds for every event.
DecideOrTruthy(h, d, a) ==
    IF ~HasKey(h, "eventname") THEN "except"
    ELSE IF a = {} THEN "sleep"
    ELSE IF ~HasKey(d, PROCESSNAME) THEN "except"
    ELSE IF d[PROCESSNAME] \in a THEN "sleep"
    ELSE "ok"

\* Decide with the watch-list test inverted (`not in` for `in`).
DecideNotIn(h, d, a) ==
    IF ~HasKey(h, "eventname") THEN "except"
    ELSE IF ~IsExitEvent(h) THEN "ok"
    ELSE IF a = {} THEN "sleep"
    ELSE IF ~HasKey(d, PROCESSNAME) THEN "except"
    ELSE IF d[PROCESSNAME] \notin a THEN "sleep"
    ELSE "ok"

\* Lines 26-27: the outcome of the two conditions: "sleep" (both hold),
\* "ok" (one is false: the else clause runs), "except" (a KeyError).
Decide(h, d, a) ==
    IF ~HasKey(h, "eventname") THEN "except"
    ELSE IF ~IsExitEvent(h) THEN "ok"
    ELSE IF a = {} THEN "sleep"
    ELSE IF ~HasKey(d, PROCESSNAME) THEN "except"
    ELSE IF d[PROCESSNAME] \in a THEN "sleep"
    ELSE "ok"

\* Lines 26-27.
CheckEvent ==
    /\ pc = "try"
    /\ pc' = Decide(headers, body, args)
    /\ UNCHANGED << args, debug_mode, headers, rawbody, body, nread, nexit, trace,
                    cmd_rc, uncaught, exit_status >>

\* Line 29: time.sleep(10).
GraceSleep ==
    /\ pc = "sleep"
    /\ trace' = Append(trace, "SLEEP")
    /\ pc' = "call"
    /\ UNCHANGED << args, debug_mode, headers, rawbody, body, nread, nexit,
                    cmd_rc, uncaught, exit_status >>

\* CallShutdown swallowing a spawn failure (the frame is then answered OK).
CallShutdownSwallow ==
    /\ pc = "call"
    /\ \/ /\ trace' = Append(trace, "SHUTDOWN")
          /\ pc' = "callwait"
       \/ /\ trace' = Append(trace, "SPAWNFAIL")
          /\ pc' = "ok"
    /\ UNCHANGED << args, debug_mode, headers, rawbody, body, nread, nexit,
                    cmd_rc, uncaught, exit_status >>

\* CallShutdown not waiting for the command (Popen for call).
CallShutdownPopen ==
    /\ pc = "call"
    /\ \/ /\ trace' = Append(trace, "SHUTDOWN")
          /\ pc' = "ok"
       \/ /\ trace' = Append(trace, "SPAWNFAIL")
          /\ pc' = "except"
    /\ UNCHANGED << args, debug_mode, headers, rawbody, body, nread, nexit,
                    cmd_rc, uncaught, exit_status >>

\* Line 31, subprocess.call: Popen either starts the command or raises
\* OSError (caught by line 33).
CallShutdown ==
    /\ pc = "call"
    /\ \/ /\ trace' = Append(trace, "SHUTDOWN")
          /\ pc' = "callwait"
       \/ /\ trace' = Append(trace, "SPAWNFAIL")
          /\ pc' = "except"
    /\ UNCHANGED << args, debug_mode, headers, rawbody, body, nread, nexit,
                    cmd_rc, uncaught, exit_status >>

\* ShutdownReturns retrying the command when it returns a non-zero status.
ShutdownReturnsRetry ==
    /\ pc = "callwait"
    /\ \E rc \in {0, 1} :
          /\ cmd_rc' = rc
          /\ pc' = IF rc = 0 THEN "ok" ELSE "call"
    /\ trace' = Append(trace, "CMDEXIT")
    /\ UNCHANGED << args, debug_mode, headers, rawbody, body, nread, nexit,
                    uncaught, exit_status >>

\* ShutdownReturns raising on a non-zero status (check_call for call).
ShutdownReturnsCheck ==
    /\ pc = "callwait"
    /\ \E rc \in {0, 1} :
          /\ cmd_rc' = rc
          /\ pc' = IF rc = 0 THEN "ok" ELSE "except"
    /\ trace' = Append(trace, "CMDEXIT")
    /\ UNCHANGED << args, debug_mode, headers, rawbody, body, nread, nexit,
                    uncaught, exit_status >>

\* Line 31, subprocess.call: waits for the command and returns its status,
\* which main discards.
ShutdownReturns ==
    /\ pc = "callwait"
    /\ \E rc \in {0, 1} : cmd_rc' = rc
    /\ trace' = Append(trace, "CMDEXIT")
    /\ pc' = "ok"
    /\ UNCHANGED << args, debug_mode, headers, rawbody, body, nread, nexit,
                    uncaught, exit_status >>

\* ListenerFail without the exit(1) that follows it: the loop goes on.
ListenerFailContinue ==
    /\ pc = "except"
    /\ trace' = Append(trace, "FAIL")
    /\ pc' = "wait"
    /\ headers' = EmptyDict
    /\ rawbody' = << >>
    /\ body' = EmptyDict
    /\ UNCHANGED << args, debug_mode, nread, nexit, cmd_rc, uncaught, exit_status >>

\* Lines 33-35: except Exception: listener.fail(sys.stdout).
ListenerFail ==
    /\ pc = "except"
    /\ trace' = Append(trace, "FAIL")
    /\ pc' = "exit"
    /\ UNCHANGED << args, debug_mode, headers, rawbody, body, nread, nexit,
                    cmd_rc, uncaught, exit_status >>

\* Exit1 with listener.ok in a finally clause: it runs as exit(1) unwinds.
Exit1FinallyOk ==
    /\ pc = "exit"
    /\ exit_status' = FailExitStatus
    /\ trace' = Append(trace, "OK")
    /\ pc' = "done"
    /\ UNCHANGED << args, debug_mode, headers, rawbody, body, nread, nexit,
                    cmd_rc, uncaught >>

\* Line 36: exit(1).
Exit1 ==
    /\ pc = "exit"
    /\ exit_status' = FailExitStatus
    /\ pc' = "done"
    /\ UNCHANGED << args, debug_mode, headers, rawbody, body, nread, nexit, trace,
                    cmd_rc, uncaught >>

\* ListenerOk leaving the loop once the shutdown command has been issued.
ListenerOkThenStop ==
    /\ pc = "ok"
    /\ trace' = Append(trace, "OK")
    /\ IF Count(trace, "SHUTDOWN") > 0
       THEN pc' = "done" /\ exit_status' = 0
       ELSE pc' = "wait" /\ UNCHANGED exit_status
    /\ headers' = EmptyDict
    /\ rawbody' = << >>
    /\ body' = EmptyDict
    /\ UNCHANGED << args, debug_mode, nread, nexit, cmd_rc, uncaught >>

\* Lines 37-38: else: listener.ok(sys.stdout); back to the top of the loop.
ListenerOk ==
    /\ pc = "ok"
    /\ trace' = Append(trace, "OK")
    /\ pc' = "wait"
    /\ headers' = EmptyDict
    /\ rawbody' = << >>
    /\ body' = EmptyDict
    /\ UNCHANGED << args, debug_mode, nread, nexit, cmd_rc, uncaught, exit_status >>

Next ==
    \/ ListenerWait
    \/ ListenerWaitEOF
    \/ ParseBody
    \/ DebugContinue
    \/ EnterTry
    \/ CheckEvent
    \/ GraceSleep
    \/ CallShutdown
    \/ ShutdownReturns
    \/ ListenerFail
    \/ Exit1
    \/ ListenerOk

Spec == Init /\ [][Next]_vars

\* The steps main takes by itself.  Not among them: the arrival of a frame
\* or of end of input (the supervisor's), the exit of the shutdown command.
WatcherStep ==
    \/ ParseBody
    \/ DebugContinue
    \/ EnterTry
    \/ CheckEvent
    \/ GraceSleep
    \/ CallShutdown
    \/ ListenerFail
    \/ Exit1
    \/ ListenerOk

\* The interpreter keeps executing main; nothing makes the command return.
FairSpec == Spec /\ WF_vars(WatcherStep)

\* ------------------------------------------------------ reading the history
Last(seq) == seq[Len(seq)]

ReadPositions(t) == { i \in 1..Len(t) : t[i] = "READ" }

\* What happened since the latest frame was read.
Seg(t) ==
    IF ReadPositions(t) = {} THEN t
    ELSE LET r == CHOOSE i \in ReadPositions(t) : \A j \in ReadPositions(t) : j <= i
         IN  SubSeq(t, r + 1, Len(t))

Acks(t) == Count(t, "OK") + Count(t, "FAIL")

\* A frame is being processed (headers always carry len once read).
FrameInHand == headers # EmptyDict

\* Lines 26-27 have been evaluated for the frame in hand.
Decided ==
    \/ pc \in {"sleep", "call", "callwait", "ok", "except", "exit"}
    \/ pc = "done" /\ uncaught = "none"

\* The grace delay has been entered for the frame in hand.
Started == pc \in {"sleep", "call", "callwait"} \/ Count(Seg(trace), "SLEEP") > 0

\* spec 4.3: EventKind is FATAL or EXITED, and the watch set is empty or
\* holds the body's processname.
ShutdownQualifying ==
    /\ HasKey(headers, "eventname")
    /\ headers["eventname"] \in {"PROCESS_STATE_FATAL", "PROCESS_STATE_EXITED"}
    /\ \/ args = {}
       \/ HasKey(body, PROCESSNAME) /\ body[PROCESSNAME] \in args

\* Every token of the raw body is key:value.
BodyConforms == ~DictRaises(rawbody)

\* ------------------------------------------------------------------ claims

\* C1: every frame read is followed by exactly one acknowledgement (OK or
\* FAIL) written before the next frame is read, for every configuration
\* (debug mode on or off); at most one frame is in flight.
C1_OneAckPerFrame ==
    /\ \A i \in ReadPositions(trace) :
          Acks(SubSeq(trace, 1, i)) = Count(SubSeq(trace, 1, i), "READ") - 1
    /\ Acks(Seg(trace)) <= 1
    /\ pc \in {"wait", "done"} => Acks(trace) = Count(trace, "READ")

\* C2 as stated: over the whole lifetime the shutdown command is invoked
\* at most once, however many qualifying frames arrive.
C2_ShutdownAtMostOnce == Count(trace, "SHUTDOWN") <= 1

\* C2 amended: there is no Triggered state; the command is invoked at most
\* once per frame read, only for a shutdown-qualifying frame, and exactly
\* once for every qualifying frame that reaches its OK reply, so N
\* qualifying frames answered OK yield N invocations.
C2_ShutdownOncePerQualifyingFrame ==
    /\ \A i \in ReadPositions(trace) :
          Count(SubSeq(trace, 1, i), "SHUTDOWN") <= Count(SubSeq(trace, 1, i), "READ") - 1
    /\ Count(Seg(trace), "SHUTDOWN") <= 1
    /\ (FrameInHand /\ Count(Seg(trace), "SHUTDOWN") = 1) =>
          (ShutdownQualifying /\ ~debug_mode)
    /\ (pc = "ok" /\ ShutdownQualifying) => Count(Seg(trace), "SHUTDOWN") = 1
    /\ Count(trace, "SHUTDOWN") = Count(trace, "SLEEP") - Count(trace, "SPAWNFAIL")
                                      - (IF pc = "call" THEN 1 ELSE 0)

\* C2 witness: two qualifying frames were processed and answered OK, and
\* the command was invoked twice.
C2_Witness ==
    /\ pc = "wait"
    /\ Count(trace, "SHUTDOWN") = 2
    /\ Count(trace, "OK") = 2
    /\ nread = 2

\* C3: debug off, well-formed frame: the grace delay and shutdown command
\* are started iff eventname is PROCESS_STATE_FATAL or PROCESS_STATE_EXITED
\* and (the watch list is empty or the body's processname is in it).
C3_ShutdownIffQualifying ==
    /\ (~debug_mode /\ FrameInHand /\ Decided /\ BodyConforms
            /\ HasKey(headers, "eventname"))
          => (Started <=> ShutdownQualifying)
    /\ (FrameInHand /\ ~Decided) => ~Started

\* C3 witness: the delay is entered for an exit event of a watched process
\* under a non-empty watch list.
C3_Witness ==
    /\ pc = "sleep"
    /\ ~debug_mode
    /\ args = { <<"game">> }
    /\ headers["eventname"] = "PROCESS_STATE_EXITED"
    /\ body[PROCESSNAME] = <<"game">>

\* C4: a frame whose body has a token without ':' yields a FAIL reply and
\* termination with non-zero status, the shutdown command is not invoked,
\* and no parsing error escapes without a reply having been written.
C4_MalformedBodyFails ==
    (FrameInHand /\ HasKey(headers, "eventname") /\ ~BodyConforms
        /\ ~debug_mode /\ pc = "done") =>
        /\ Last(trace) = "FAIL"
        /\ uncaught = "none"
        /\ exit_status \notin {0, Running}
        /\ Count(Seg(trace), "SHUTDOWN") = 0

\* The frame in hand is well-formed in the sense of spec 4.2: eventname in
\* the header, key:value tokens in the body, processname in the body of a
\* process-state event.
WellFormedFrame ==
    /\ FrameInHand
    /\ HasKey(headers, "eventname")
    /\ BodyConforms
    /\ IsExitEvent(headers) => HasKey(DictOf(rawbody), PROCESSNAME)

\* C5: for every well-formed frame exactly one reply is produced when its
\* processing ends (the loop returns to wait, or the process exits), and
\* it is OK unless a fault occurred (here: the command could not start).
C5_OneReplyPerWellFormedFrame ==
    [][ (WellFormedFrame /\ pc # "done" /\ pc' \in {"wait", "done"}) =>
            /\ Acks(Seg(trace')) = 1
            /\ Count(Seg(trace'), "SPAWNFAIL") = 0 => Count(Seg(trace'), "OK") = 1
      ]_vars

\* C6: FAIL is terminal: after FAIL is written nothing more is read or
\* written and no command is invoked; the process exits with non-zero
\* status; at most one FAIL per lifetime and it is the last reply.
C6_FailIsTerminal ==
    Count(trace, "FAIL") > 0 =>
        /\ Count(trace, "FAIL") = 1
        /\ Last(trace) = "FAIL"
        /\ pc \in {"exit", "done"}
        /\ pc = "exit" => ENABLED Exit1
        /\ pc = "done" => exit_status \notin {0, Running}

\* C6 witness: FAIL was written and the process has exited with status 1.
C6_Witness ==
    /\ pc = "done"
    /\ Count(trace, "FAIL") = 1
    /\ exit_status = FailExitStatus

\* C7: body classification is attempted only for FATAL / EXITED frames: a
\* frame of another kind with a non-conforming body is acknowledged OK,
\* never triggers shutdown and does not terminate the watcher.
C7_OtherKindsNotClassified ==
    (FrameInHand /\ HasKey(headers, "eventname") /\ ~IsExitEvent(headers)
        /\ ~BodyConforms /\ rawbody # << >> /\ ~debug_mode) =>
        /\ pc \notin {"done", "except", "exit"}
        /\ ~Started
        /\ Count(Seg(trace), "FAIL") = 0

\* The frame in hand is a FATAL / EXITED frame whose body parses and has
\* no processname key.
ExitEventWithoutProcessname ==
    /\ FrameInHand
    /\ HasKey(headers, "eventname")
    /\ IsExitEvent(headers)
    /\ BodyConforms
    /\ ~HasKey(DictOf(rawbody), PROCESSNAME)

\* C8 as stated: such a frame is a fault for every watch list, the empty
\* one included: answered with FAIL, never starting the delay or command.
C8_MissingProcessnameAlwaysFails ==
    (ExitEventWithoutProcessname /\ ~debug_mode /\ Decided) =>
        /\ ~Started
        /\ pc \in {"except", "exit", "done"}
        /\ pc \in {"exit", "done"} => Last(trace) = "FAIL"

\* C8 amended: such a frame is a fault only under a non-empty watch list
\* with debug mode off (FAIL, no delay, no command); under the empty watch
\* list with debug mode off the body is not consulted and the frame is
\* shutdown-qualifying (delay, command, then OK unless the command could
\* not start); in debug mode it gets no reply and starts nothing.
C8_MissingProcessnameByWatchList ==
    /\ (ExitEventWithoutProcessname /\ ~debug_mode /\ Decided /\ args # {}) =>
          /\ ~Started
          /\ pc \in {"except", "exit", "done"}
          /\ pc \in {"exit", "done"} => Last(trace) = "FAIL"
    /\ (ExitEventWithoutProcessname /\ ~debug_mode /\ Decided /\ args = {}) =>
          /\ Started
          /\ (pc = "ok" => Count(Seg(trace), "SHUTDOWN") = 1)
          /\ (Count(Seg(trace), "SPAWNFAIL") = 0 => pc \in {"sleep", "call", "callwait", "ok"})
    /\ (ExitEventWithoutProcessname /\ debug_mode) =>
          /\ ~Started
          /\ ~Decided
          /\ Acks(Seg(trace)) = 0

\* C8 witness: under the empty watch list the command has been invoked for
\* an exit event whose body has no processname, and OK is about to be sent.
C8_Witness ==
    /\ ExitEventWithoutProcessname
    /\ args = {}
    /\ pc = "ok"
    /\ Count(Seg(trace), "SHUTDOWN") = 1

\* C9 as stated: a failure to spawn the shutdown command is not escalated:
\* no FAIL is written and the process does not exit with non-zero status.
C9_SpawnFailureNotEscalated ==
    Count(Seg(trace), "SPAWNFAIL") > 0 =>
        /\ Count(Seg(trace), "FAIL") = 0
        /\ exit_status \in {0, Running}

\* C9 amended: a failure to spawn the shutdown command is escalated like
\* any other exception: FAIL is written for the frame, no OK, and the
\* process exits with status 1.
C9_SpawnFailureEscalated ==
    Count(trace, "SPAWNFAIL") > 0 =>
        /\ Count(trace, "SPAWNFAIL") = 1
        /\ pc \in {"except", "exit", "done"}
        /\ Count(Seg(trace), "OK") = 0
        /\ pc \in {"exit", "done"} => Last(trace) = "FAIL"
        /\ pc = "done" => exit_status = FailExitStatus

\* C9 witness: the command could not be started, FAIL was written and the
\* process exited with status 1.
C9_Witness ==
    /\ pc = "done"
    /\ Count(Seg(trace), "SPAWNFAIL") = 1
    /\ Last(trace) = "FAIL"
    /\ exit_status = FailExitStatus

\* C10: in debug mode every frame is a no-op whatever its shape: nothing
\* is invoked, no OK or FAIL is written, and the watcher goes on to read
\* the next frame (it stops only at the end of the stream).
C10_DebugFramesAreNoOps ==
    debug_mode =>
        /\ Count(trace, "SHUTDOWN") = 0
        /\ Acks(trace) = 0
        /\ pc = "done" => ~FrameInHand

\* listener.wait wrote READY and found the input stream exhausted.
StreamClosed == pc = "done" /\ ~FrameInHand /\ Last(trace) = "READY"

\* C11: when the input stream is exhausted the watcher terminates with a
\* clean (zero-status) exit, without writing FAIL and without invoking
\* the shutdown command.
C11_StreamClosedCleanExit ==
    StreamClosed =>
        /\ exit_status = 0
        /\ uncaught = "none"
        /\ Count(Seg(trace), "FAIL") = 0
        /\ Count(Seg(trace), "SHUTDOWN") = 0

\* Is s a prefix of t.
IsPrefix(s, t) == Len(s) <= Len(t) /\ s = SubSeq(t, 1, Len(s))

\* C12: for a shutdown-qualifying frame the order is: frame read, grace
\* delay, command invoked, and only then OK; nothing is read or replied
\* between the read and the end of the delay; the reply is OK whatever
\* status the command returns.
C12_QualifyingFrameOrder ==
    /\ (Started /\ FrameInHand) => ShutdownQualifying
    /\ pc = "sleep" => Seg(trace) = << >>
    /\ pc = "call" => Seg(trace) = << "SLEEP" >>
    /\ pc = "callwait" => Seg(trace) = << "SLEEP", "SHUTDOWN" >>
    /\ Count(Seg(trace), "SHUTDOWN") > 0 =>
          IsPrefix(Seg(trace), << "SLEEP", "SHUTDOWN", "CMDEXIT", "OK", "READY" >>)
    /\ (FrameInHand /\ ShutdownQualifying /\ pc = "ok") =>
          /\ Seg(trace) = << "SLEEP", "SHUTDOWN", "CMDEXIT" >>
          /\ ENABLED ListenerOk

\* C12 witness: the command returned a non-zero status and the qualifying
\* frame has been answered OK after the delay and the invocation.
C12_Witness ==
    /\ pc = "wait"
    /\ cmd_rc = 1
    /\ Seg(trace) = << "SLEEP", "SHUTDOWN", "CMDEXIT", "OK" >>

\* The shutdown command of the frame in hand was started and has not
\* returned yet.
CommandRunning ==
    Count(Seg(trace), "SHUTDOWN") > Count(Seg(trace), "CMDEXIT")

\* C13 as stated: the command is fire-and-forget: once it is spawned the
\* frame gets acknowledged even if the command never returns.
C13_AckNotBlockedByCommand ==
    (CommandRunning /\ Acks(Seg(trace)) = 0) ~> (Acks(Seg(trace)) = 1)

\* C13 amended: the command is invoked synchronously: while it runs the
\* watcher is blocked in subprocess.call (no step of its own is possible,
\* nothing is acknowledged), and the OK of the qualifying frame is written
\* only after the command has returned.
C13_AckWaitsForCommand ==
    /\ CommandRunning =>
          /\ pc = "callwait"
          /\ Acks(Seg(trace)) = 0
          /\ ~ENABLED WatcherStep
    /\ (Count(Seg(trace), "SHUTDOWN") > 0 /\ Acks(Seg(trace)) > 0) =>
          IsPrefix(<< "SLEEP", "SHUTDOWN", "CMDEXIT", "OK" >>, Seg(trace))

\* C13 witness: the command is running and the frame is unacknowledged.
C13_Witness ==
    /\ CommandRunning
    /\ pc = "callwait"
    /\ Acks(Seg(trace)) = 0

\* C14: debug off, header without eventname, body well-formed: a fault
\* for every watch list: FAIL is written, the exit status is non-zero and
\* the shutdown command is not invoked.
C14_MissingEventnameFails ==
    (FrameInHand /\ ~HasKey(headers, "eventname") /\ BodyConforms
        /\ ~debug_mode /\ Decided) =>
        /\ pc \in {"except", "exit", "done"}
        /\ ~Started
        /\ Count(Seg(trace), "SHUTDOWN") = 0
        /\ pc = "except" => Seg(trace) = << >> /\ ENABLED ListenerFail
        /\ pc \in {"exit", "done"} => Seg(trace) = << "FAIL" >>
        /\ pc = "done" => exit_status \notin {0, Running}

\* C14 witness: under a non-empty watch list a frame without eventname
\* was answered FAIL and the process exited with status 1.
C14_Witness ==
    /\ FrameInHand /\ ~HasKey(headers, "eventname") /\ BodyConforms
    /\ args = { <<"game">> }
    /\ pc = "done"
    /\ Seg(trace) = << "FAIL" >>
    /\ exit_status = FailExitStatus

\* The frame in hand has an eventname and a conforming body, a processname
\* when it is a process-state event, and is not shutdown-qualifying.
WellFormedNonQualifying ==
    /\ WellFormedFrame
    /\ ~( /\ IsExitEvent(headers)
          /\ (args = {} \/ DictOf(rawbody)[PROCESSNAME] \in args) )

\* C15 as stated (last part): after the shutdown command has been issued
\* the watcher reads no further frames.
C15_NoReadAfterShutdown ==
    \A i \in 1..Len(trace) : \A j \in 1..Len(trace) :
        (trace[i] = "SHUTDOWN" /\ i < j) => trace[j] # "READ"

\* C15 amended: the watcher stops only when the input stream closes or a
\* fault occurs (an exception escapes, or FAIL then exit(1)); a well-formed
\* non-qualifying frame never terminates it, and neither does issuing the
\* shutdown command: once the command returns the frame is acknowledged
\* and the watcher goes back to reading frames.
C15_StopsOnlyOnEofOrFault ==
    /\ pc = "done" =>
          /\ exit_status \notin {0, Running}
          /\ \/ StreamClosed /\ uncaught = "KeyError"
             \/ FrameInHand /\ uncaught = "ValueError" /\ ~BodyConforms
             \/ FrameInHand /\ uncaught = "none" /\ Last(trace) = "FAIL"
    /\ WellFormedNonQualifying => pc \in {"parse", "debug", "try", "ok"}
    /\ (FrameInHand /\ Count(Seg(trace), "SHUTDOWN") > 0) => pc \in {"callwait", "ok"}
    /\ (pc = "wait" /\ nread < MaxFrames) => ENABLED ListenerWait

\* C15 witness: a frame has been read after the shutdown command was
\* issued and acknowledged.
C15_Witness ==
    /\ Count(trace, "SHUTDOWN") = 1
    /\ Count(trace, "READ") = 2
    /\ Count(Seg(trace), "SHUTDOWN") = 0
    /\ pc = "parse"

\* C16: debug off: frames read minus replies written is 0 or 1 in every
\* state: no reply without an outstanding frame, no second frame read
\* while one is unacknowledged.
C16_OneFrameInFlight ==
    ~debug_mode =>
        /\ Count(trace, "READ") - Acks(trace) \in {0, 1}
        /\ Count(trace, "READ") = nread
        /\ \A i \in ReadPositions(trace) :
              Acks(SubSeq(trace, 1, i)) = Count(SubSeq(trace, 1, i), "READ") - 1

\* C16 witness: the second frame is in flight, the first was acknowledged.
C16_Witness ==
    /\ ~debug_mode
    /\ nread = 2
    /\ Acks(trace) = 1
    /\ pc = "try"

\* C17: shutdown invocations never exceed the FATAL / EXITED frames read,
\* each such frame causes at most one invocation, and every invocation
\* happens while the frame that caused it is unacknowledged.
C17_InvocationsBoundedByExitFrames ==
    /\ Count(trace, "SHUTDOWN") <= nexit
    /\ nexit <= nread
    /\ Count(Seg(trace), "SHUTDOWN") <= 1
    /\ \A i \in 1..Len(trace) :
          trace[i] = "SHUTDOWN" =>
              /\ Acks(SubSeq(trace, 1, i)) = Count(SubSeq(trace, 1, i), "READ") - 1
              /\ Count(SubSeq(trace, 1, i), "SHUTDOWN") <= Count(SubSeq(trace, 1, i), "READ")
    /\ (FrameInHand /\ Count(Seg(trace), "SHUTDOWN") = 1) =>
          HasKey(headers, "eventname") /\ IsExitEvent(headers)

\* C17 witness: two frames read, the first not an exit event and answered
\* OK, the second an exit event whose invocation is under way while it is
\* unacknowledged.
C17_Witness ==
    /\ nread = 2
    /\ nexit = 1
    /\ Acks(trace) = 1
    /\ Count(Seg(trace), "SHUTDOWN") = 1
    /\ pc = "callwait"

====
